---- MODULE Spec2Model ----
\* A model of thresher (src/src/lib.rs): Thresher<A>, a GlobalAlloc wrapper that
\* counts live bytes in an AtomicUsize and invokes a write-once callback when a
\* growth takes the count across a threshold.
\*
\* Every atomic access of the source (threshold.load, allocated.fetch_add,
\* allocated.fetch_sub, threshold.store, OnceLock::set/get) and every call of the
\* wrapped allocator is one step of the calling thread, so that threads interleave
\* between them exactly where the code allows it.
\*
\* The wrapped allocator A is the environment: it may fail any request, it never has
\* more than usize::MAX bytes outstanding, and callers use it as GlobalAlloc requires
\* (non-zero sizes; dealloc and realloc only of a block they own, with its layout).
\* usize arithmetic keeps its width: fetch_add and fetch_sub wrap, and
\* `old_allocated + allocation_size` wraps or panics on overflow, as the build decides.
\*
\* The closure registered with set_callback is the caller's code. The closures of
\* Callbacks run in one step, inside the test of maybe_callback: one of them stores to
\* a flag as the closure of tests::simple does, the others leave no trace. The closure
\* Allocating calls into the wrapper while it runs, as the one of examples/basic.rs
\* can: the operation that invoked it is suspended on the thread's stack until the
\* closure returns.
\*
\* Besides the program's state the model carries observations (hist, firstReg,
\* configured, sequential, before, rearm, steady, shrinks, sinceFire) that no action
\* reads to decide what the program does; the properties at the end are stated over
\* them.
EXTENDS Integers, FiniteSets, Sequences, TLC

\* ---------------------------------------------------------------- bounds
\* usize is scaled down to WordBits bits.
WordBits == 2
\* Layout sizes are 1..MaxSize (GlobalAlloc forbids zero-sized requests).
MaxSize == 2
\* The wrapped allocator has MaxBlocks addresses to hand out.
MaxBlocks == 2
\* Threads that may call into the wrapper.
NThreads == 2
\* The closures a caller may pass to set_callback.
NCallbacks == 2
\* The wrapper operations one run of a closure that calls into the wrapper performs.
MaxNested == 3
\* The callback invocations that can be nested before the thread's stack is exhausted.
MaxDepth == 2

\* ---------------------------------------------------------------- constants
Modulus == 2 ^ WordBits
\* usize::MAX (lib.rs:61)
UsizeMax == Modulus - 1
Usize == 0..UsizeMax
\* a null pointer
Null == 0
Addrs == 1..MaxBlocks
Sizes == 1..MaxSize
Threads == 1..NThreads
\* OnceLock empty
None == 0
Callbacks == 1..NCallbacks
\* the closure of tests::simple, which stores to a flag (lib.rs:194-196); the other
\* closures of Callbacks leave no trace in the program's state
Storing == 1
\* a closure that calls into the wrapper while it runs, as one that formats and prints
\* does under #[global_allocator] (examples/basic.rs:8-11)
Allocating == NCallbacks + 1

VARIABLES
    allocated,   \* Thresher.allocated : AtomicUsize
    threshold,   \* Thresher.threshold : AtomicUsize
    callback,    \* Thresher.callback  : OnceLock<Box<dyn Fn(usize)>>, None or a closure
    heap,        \* Thresher.allocator : per address, the size of the block the
                 \* wrapped allocator has outstanding there (0 = free)
    held,        \* addresses the wrapper has returned to a caller, who still owns them
    pc,          \* per thread, its position in the operation it is executing
    call,        \* per thread, the arguments of the operation it is executing
    loc,         \* per thread, the locals of that operation
    hist,        \* per thread, what the operation has done so far (observation only)
    firstReg,    \* the closure of the first set_callback call (observation only)
    configured,  \* whether set_threshold has ever been called (observation only)
    sequential,  \* whether no two operations have overlapped so far: the trace up to
                 \* here is a sequential one (observation only)
    before,      \* in a sequential trace, the live byte count when the latest
                 \* operation was called (observation only)
    rearm,       \* in a sequential trace, where the count stands since the threshold
                 \* was last set: "fresh", "fired" (the callback ran), "dropped" (then a
                 \* shrink took the count below the threshold), "refired" (then the
                 \* callback ran again) (observation only)
    flag,        \* what the registered closure has done: the AtomicBool that the closure
                 \* of tests::simple stores to
    stack,       \* per thread, the operations suspended in a running callback: a closure
                 \* that calls into the wrapper runs its operations as the same thread
    steady,      \* whether the threshold and the callback were set before the first
                 \* operation and are never set again (observation only)
    shrinks,     \* in a steady trace, whether a shrink operation has been called
                 \* (observation only)
    sinceFire    \* in a steady trace, "none" until the callback runs, "fired" once it
                 \* has run, "dropped" once an update has then taken the count below
                 \* the threshold (a fetch_sub, or a fetch_add that wraps), "refired"
                 \* when it has run again with no such update in between
                 \* (observation only)

vars == <<allocated, threshold, callback, heap, held, pc, call, loc, hist, firstReg,
          configured, sequential, before, rearm, flag, stack, steady, shrinks, sinceFire>>

\* the fields of the Thresher and its wrapped allocator
prog == <<allocated, threshold, callback, heap>>
\* the observations that span operations
obs == <<firstReg, configured, sequential, before, rearm>>
\* the closure's state, the suspended operations and the observations of a steady trace
more == <<flag, stack, steady, shrinks, sinceFire>>

\* ---------------------------------------------------------------- helpers
RECURSIVE SumOver(_, _)
SumOver(f, S) == IF S = {} THEN 0
                 ELSE LET x == CHOOSE y \in S : TRUE IN f[x] + SumOver(f, S \ {x})

\* bytes the wrapped allocator has outstanding
HeapBytes == SumOver(heap, Addrs)

\* A subtraction that stops at zero.
SaturatingSub(a, b) == IF a >= b THEN a - b ELSE 0

\* AtomicUsize::fetch_add / fetch_sub wrap around
WrapAdd(a, b) == (a + b) % Modulus
WrapSub(a, b) == (a - b + Modulus) % Modulus

NoCall == [op |-> "none", ptr |-> Null, old_size |-> 0, size |-> 0, arg |-> 0]
NoLoc  == [ptr |-> Null, threshold |-> 0, old_allocated |-> 0, new_allocated |-> 0,
           allocation_size |-> 0]
NoHist == [inner |-> 0, inner_op |-> "none", inner_args |-> <<>>,
           inner_ret |-> Null, updates |-> 0, delta |-> 0, fires |-> 0, fired |-> None,
           fire_arg |-> 0, early |-> FALSE, clean |-> TRUE, was_first |-> FALSE,
           stale |-> FALSE, moved |-> FALSE, outcome |-> "none"]

\* ---------------------------------------------------------------- Thresher::new
Init ==
    /\ allocated = 0
    /\ threshold = UsizeMax
    /\ callback = None
    /\ heap = [a \in Addrs |-> 0]
    /\ held = {}
    /\ pc = [t \in Threads |-> "idle"]
    /\ call = [t \in Threads |-> NoCall]
    /\ loc = [t \in Threads |-> NoLoc]
    /\ hist = [t \in Threads |-> NoHist]
    /\ firstReg = None
    /\ before = 0
    /\ configured = FALSE
    /\ sequential = TRUE
    /\ rearm = "fresh"
    /\ flag = FALSE
    /\ stack = [t \in Threads |-> <<>>]
    /\ steady = FALSE
    /\ shrinks = FALSE
    /\ sinceFire = "none"

\* The observations of a sequential trace when thread t enters an operation: they
\* stop (at their initial values) once the operation overlaps another one.
ObserveCall(t, r) ==
    /\ sequential' = (sequential /\ \A u \in Threads \ {t} : pc[u] = "idle")
    /\ before' = IF sequential' THEN allocated ELSE 0
    /\ rearm' = IF sequential' THEN r ELSE "fresh"

\* A thread enters an operation: its arguments are bound, its locals are fresh. Inside
\* a running callback the operation is one of those the closure's body performs.
Enter(t, c, next) ==
    /\ pc[t] = "idle"
    /\ stack[t] # <<>> => Head(stack[t]).left > 0
    /\ stack' = IF stack[t] = <<>> THEN stack
                ELSE [stack EXCEPT ![t] = <<[Head(@) EXCEPT !.left = @ - 1]>> \o Tail(@)]
    /\ pc' = [pc EXCEPT ![t] = next]
    /\ call' = [call EXCEPT ![t] = c]
    /\ loc' = [loc EXCEPT ![t] = NoLoc]
    /\ hist' = [hist EXCEPT ![t] = NoHist]

\* A thread returns from an operation to its caller.
Leave(t) ==
    /\ pc' = [pc EXCEPT ![t] = "idle"]
    /\ call' = [call EXCEPT ![t] = NoCall]
    /\ loc' = [loc EXCEPT ![t] = NoLoc]
    /\ hist' = [hist EXCEPT ![t] = NoHist]

\* The observations of the operations in flight after an event that lowers the count
\* or stores a threshold: they are no longer "clean".
Disturb(h) ==
    [u \in Threads |-> IF pc[u] = "idle" THEN h[u] ELSE [h[u] EXCEPT !.clean = FALSE]]

\* The observations of the operations that have made their fetch_add and not yet
\* their test, after a store of `value` to the threshold: the threshold they loaded is
\* stale unless it is one of the values the threshold has had since their fetch_add.
StoredSince(h, value) ==
    [u \in Threads |-> IF pc[u] = "mc_check"
                       THEN [h[u] EXCEPT !.stale = @ /\ loc[u].threshold # value]
                       ELSE h[u]]

\* rearm after a counter update to `count`
Dropped(count) ==
    IF sequential /\ rearm \in {"fired", "refired"} /\ count < threshold
    THEN "dropped" ELSE rearm

\* sinceFire after the callback ran
FiredSince ==
    CASE ~steady -> sinceFire
      [] sinceFire \in {"fired", "refired"} -> "refired"
      [] OTHER -> "fired"

\* sinceFire after an update that lowers the count to `count`
DroppedSince(count) ==
    IF steady /\ sinceFire \in {"fired", "refired"} /\ count < threshold
    THEN "dropped" ELSE sinceFire

\* rearm after the callback ran
Fired ==
    CASE sequential /\ rearm = "fresh" -> "fired"
      [] sequential /\ rearm = "dropped" -> "refired"
      [] OTHER -> rearm

\* ---------------------------------------------------------------- the wrapped allocator A
\* The address A hands out next: the lowest free one (which one is immaterial to the
\* wrapper, which never looks at an address but to compare it with null).
FreeAddr == {a \in Addrs : heap[a] = 0 /\ \A b \in Addrs : heap[b] = 0 => a <= b}

\* What A::alloc / A::alloc_zeroed may return for a request of `size` bytes: null, or
\* a free address, provided the bytes outstanding stay within the address space.
InnerAllocResults(size) ==
    {Null} \cup {a \in FreeAddr : HeapBytes + size <= UsizeMax}

\* What A::realloc may return for block `ptr` and `size`: null (the block is left as
\* it was), `ptr` itself (resized in place) or a free address (the block moved).
InnerReallocResults(ptr, size) ==
    {Null} \cup {a \in FreeAddr \cup {ptr} : HeapBytes - heap[ptr] + size <= UsizeMax}

\* The record of a call of the wrapped allocator by thread t.
InnerCalled(t, op, args, ret) ==
    [hist[t] EXCEPT !.inner = @ + 1, !.inner_op = op, !.inner_args = args,
                    !.inner_ret = ret]

\* ---------------------------------------------------------------- set_threshold
\* A store that leaves the threshold alone when the count has already reached the
\* value.
StoredUnlessReached(current, value) == IF value <= allocated THEN current ELSE value

\* what self.threshold.store(threshold, Release) leaves in the atomic
Stored(current, value) == value

\* self.threshold.store(threshold, Release)
set_threshold(t, value) ==
    /\ pc[t] = "idle"
    /\ pc' = [pc EXCEPT ![t] = "ret"]
    /\ call' = [call EXCEPT ![t] = [NoCall EXCEPT !.op = "set_threshold", !.arg = value]]
    /\ loc' = [loc EXCEPT ![t] = NoLoc]
    /\ threshold' = Stored(threshold, value)
    /\ hist' = [StoredSince(Disturb(hist), threshold') EXCEPT
                  ![t] = [NoHist EXCEPT !.outcome = "ok"]]
    /\ ObserveCall(t, "fresh")
    /\ configured' = TRUE
    /\ UNCHANGED <<allocated, callback, heap, held, firstReg, more>>

set_threshold_ret(t) ==
    /\ pc[t] = "ret"
    /\ call[t].op = "set_threshold"
    /\ Leave(t)
    /\ UNCHANGED <<prog, held, obs, more>>

\* ---------------------------------------------------------------- set_callback
\* A cell that takes every closure it is given.
OnceLockReplace(cell, f) == f

\* OnceLock::set stores the closure if the cell is empty and returns Err otherwise.
OnceLockSet(cell, f) == IF cell = None THEN f ELSE cell
OnceLockSetOk(cell) == cell = None

\* self.callback.set(Box::new(callback)).map_err(drop).expect(..): panics on Err.
set_callback(t, f) ==
    /\ pc[t] = "idle"
    /\ callback' = OnceLockSet(callback, f)
    /\ pc' = [pc EXCEPT ![t] = "ret"]
    /\ call' = [call EXCEPT ![t] = [NoCall EXCEPT !.op = "set_callback", !.arg = f]]
    /\ loc' = [loc EXCEPT ![t] = NoLoc]
    /\ hist' = [hist EXCEPT ![t] =
                  [NoHist EXCEPT !.was_first = (firstReg = None),
                                 !.outcome = IF OnceLockSetOk(callback)
                                             THEN "ok" ELSE "panic"]]
    /\ firstReg' = IF firstReg = None THEN f ELSE firstReg
    /\ ObserveCall(t, rearm)
    /\ UNCHANGED <<allocated, threshold, heap, held, configured, more>>

\* the call returns, or its panic unwinds to the caller
set_callback_ret(t) ==
    /\ pc[t] = "ret"
    /\ call[t].op = "set_callback"
    /\ Leave(t)
    /\ UNCHANGED <<prog, held, obs, more>>

\* ---------------------------------------------------------------- maybe_callback
\* The call self.maybe_callback(allocation_size), entered by thread t.
EnterMaybeCallback(t, allocation_size) ==
    [loc[t] EXCEPT !.allocation_size = allocation_size]

\* let threshold = self.threshold.load(Acquire);
maybe_callback_load(t) ==
    /\ pc[t] = "mc_load"
    /\ loc' = [loc EXCEPT ![t].threshold = threshold]
    /\ pc' = [pc EXCEPT ![t] = "mc_add"]
    /\ UNCHANGED <<prog, held, call, hist, obs, more>>

\* let old_allocated = self.allocated.fetch_add(allocation_size, Release);
maybe_callback_add(t) ==
    /\ pc[t] = "mc_add"
    /\ loc' = [loc EXCEPT ![t].old_allocated = allocated]
    /\ allocated' = WrapAdd(allocated, loc[t].allocation_size)
    /\ LET h == [hist EXCEPT ![t].updates = @ + 1,
                             ![t].delta = loc[t].allocation_size,
                             ![t].stale = (loc[t].threshold # threshold),
                             ![t].early = @ \/ hist[t].inner = 0]
       IN hist' = IF allocated' < allocated THEN Disturb(h) ELSE h
    /\ sinceFire' = IF allocated' < allocated THEN DroppedSince(allocated')
                    ELSE sinceFire
    /\ pc' = [pc EXCEPT ![t] = "mc_check"]
    /\ UNCHANGED <<threshold, callback, heap, held, call, obs, flag, stack, steady,
                   shrinks>>

\* What `old_allocated + allocation_size` evaluates to: the sum, and on overflow
\* the wrapped sum (overflow checks off) or a panic (overflow checks on).
AddOutcomes(old_allocated, allocation_size) ==
    IF old_allocated + allocation_size <= UsizeMax
    THEN {[panic |-> FALSE, value |-> old_allocated + allocation_size]}
    ELSE {[panic |-> FALSE, value |-> WrapAdd(old_allocated, allocation_size)],
          [panic |-> TRUE, value |-> 0]}

\* The edge test as a level test: it no longer looks at the count before the add.
CrossedLevel(old_allocated, new_allocated, thr) ==
    new_allocated >= thr

\* The edge test with > for >=.
CrossedStrict(old_allocated, new_allocated, thr) ==
    new_allocated > thr /\ old_allocated < thr

\* new_allocated >= threshold && old_allocated < threshold
Crossed(old_allocated, new_allocated, thr) ==
    new_allocated >= thr /\ old_allocated < thr

\* The threshold read again at the test, after the fetch_add.
ThresholdReadLate(t) == threshold

\* `threshold` in the test: the local that line 113 loaded, before the fetch_add
ThresholdAtCheck(t) == loc[t].threshold

\* && let Some(cb) = self.callback.get()
CallbackGet == callback

\* The callback handed the count as it stands when the callback runs.
FireArgCurrent(old_allocated, new_allocated) == allocated

\* cb(new_allocated): the argument the callback is invoked with
FireArg(old_allocated, new_allocated) == new_allocated

\* A closure that is never run.
CallbackBodySkipped(f, fl) == fl

\* cb(..) for the closures that do not call into the wrapper: what running closure f
\* makes of the flag.  cb_flag.store(true, Release)
CallbackBody(f, fl) == IF f = Storing THEN TRUE ELSE fl

\* whether closure f calls into the wrapper while it runs
Reenters(f) == f = Allocating

\* let new_allocated = old_allocated + allocation_size;
\* if new_allocated >= threshold && old_allocated < threshold
\*     && let Some(cb) = self.callback.get() { cb(new_allocated); }
maybe_callback_check(t) ==
    /\ pc[t] = "mc_check"
    /\ \E sum \in AddOutcomes(loc[t].old_allocated, loc[t].allocation_size) :
         IF sum.panic
         THEN /\ pc' = [pc EXCEPT ![t] = "panicked"]
              /\ hist' = [hist EXCEPT ![t].outcome = "panic"]
              /\ UNCHANGED <<loc, call, held, rearm, flag, stack, sinceFire>>
         ELSE LET new_allocated == sum.value
                  cb == CallbackGet
                  fire == /\ Crossed(loc[t].old_allocated, new_allocated,
                                     ThresholdAtCheck(t))
                          /\ cb # None
                  locals == [loc[t] EXCEPT !.new_allocated = new_allocated]
                  done == [hist[t] EXCEPT
                             !.fires = IF fire THEN @ + 1 ELSE @,
                             !.fired = IF fire THEN cb ELSE @,
                             !.fire_arg = IF fire
                                          THEN FireArg(loc[t].old_allocated, new_allocated)
                                          ELSE @,
                             !.moved = fire /\ allocated # new_allocated,
                             !.early = @ \/ (fire /\ hist[t].inner = 0),
                             !.outcome = "ok"]
              IN /\ rearm' = IF fire THEN Fired ELSE rearm
                 /\ sinceFire' = IF fire THEN FiredSince ELSE sinceFire
                 /\ flag' = IF fire THEN CallbackBody(cb, flag) ELSE flag
                 /\ IF fire /\ Reenters(cb)
                    THEN \* cb runs wrapper operations of its own: this one waits for
                         \* it, and cb can free only what it allocates itself
                         /\ Len(stack[t]) < MaxDepth
                         /\ stack' = [stack EXCEPT ![t] =
                                         <<[call |-> call[t], loc |-> locals,
                                            hist |-> done, held |-> held,
                                            left |-> MaxNested]>> \o @]
                         /\ pc' = [pc EXCEPT ![t] = "idle"]
                         /\ call' = [call EXCEPT ![t] = NoCall]
                         /\ loc' = [loc EXCEPT ![t] = NoLoc]
                         /\ hist' = [hist EXCEPT ![t] = NoHist]
                         /\ held' = {}
                    ELSE /\ loc' = [loc EXCEPT ![t] = locals]
                         /\ hist' = [hist EXCEPT ![t] = done]
                         /\ pc' = [pc EXCEPT ![t] = "ret"]
                         /\ UNCHANGED <<call, held, stack>>
    /\ UNCHANGED <<prog, firstReg, configured, sequential, before, steady, shrinks>>

\* The closure's body has run to its end: cb(new_allocated) returns into
\* maybe_callback, which returns into the operation that called it. What the closure
\* allocated and did not free stays allocated.
callback_return(t) ==
    /\ pc[t] = "idle"
    /\ stack[t] # <<>>
    /\ LET frame == Head(stack[t])
       IN /\ pc' = [pc EXCEPT ![t] = "ret"]
          /\ call' = [call EXCEPT ![t] = frame.call]
          /\ loc' = [loc EXCEPT ![t] = frame.loc]
          /\ hist' = [hist EXCEPT ![t] = frame.hist]
          /\ held' = frame.held \cup held
          /\ stack' = [stack EXCEPT ![t] = Tail(@)]
    /\ UNCHANGED <<prog, obs, flag, steady, shrinks, sinceFire>>

\* A wrapper that hands back null once it has run the callback.
RetPtrLost(t) == IF hist[t].fires > 0 THEN Null ELSE loc[t].ptr

\* The pointer an allocating operation hands back to its caller: `ptr` / `new_ptr`,
\* the wrapped allocator's result.
RetPtr(t) == loc[t].ptr

\* The null check left out.
IsNullNever(ptr) == FALSE

\* ptr.is_null()
IsNull(ptr) == ptr = Null

\* ---------------------------------------------------------------- alloc, alloc_zeroed
\* A caller invokes alloc(layout) or alloc_zeroed(layout).
alloc_call(t, op, size) ==
    /\ op \in {"alloc", "alloc_zeroed"}
    /\ Enter(t, [NoCall EXCEPT !.op = op, !.size = size], "inner")
    /\ ObserveCall(t, rearm)
    /\ UNCHANGED <<prog, held, firstReg, configured, flag, steady, shrinks, sinceFire>>

\* let ptr = self.allocator.alloc(layout);  if !ptr.is_null() { self.maybe_callback(..) }
alloc_inner(t) ==
    /\ pc[t] = "inner"
    /\ call[t].op \in {"alloc", "alloc_zeroed"}
    /\ \E ptr \in InnerAllocResults(call[t].size) :
         /\ heap' = IF ptr = Null THEN heap ELSE [heap EXCEPT ![ptr] = call[t].size]
         /\ hist' = [hist EXCEPT ![t] =
                       InnerCalled(t, call[t].op, <<call[t].size>>, ptr)]
         /\ loc' = [loc EXCEPT ![t] =
                      [EnterMaybeCallback(t, IF IsNull(ptr) THEN 0 ELSE call[t].size)
                         EXCEPT !.ptr = ptr]]
         /\ pc' = [pc EXCEPT ![t] = IF IsNull(ptr) THEN "ret" ELSE "mc_load"]
    /\ UNCHANGED <<allocated, threshold, callback, held, call, obs, more>>

\* ptr   (the caller owns the block from here on)
alloc_ret(t) ==
    /\ pc[t] = "ret"
    /\ call[t].op \in {"alloc", "alloc_zeroed"}
    /\ held' = IF RetPtr(t) = Null THEN held ELSE held \cup {RetPtr(t)}
    /\ Leave(t)
    /\ UNCHANGED <<prog, obs, more>>

\* ---------------------------------------------------------------- dealloc
\* A caller invokes dealloc(ptr, layout) on a block it owns, with the block's layout.
dealloc_call(t, ptr) ==
    /\ ptr \in held
    /\ Enter(t, [NoCall EXCEPT !.op = "dealloc", !.ptr = ptr, !.size = heap[ptr]],
             "inner")
    /\ held' = held \ {ptr}
    /\ ObserveCall(t, rearm)
    /\ shrinks' = (shrinks \/ steady)
    /\ UNCHANGED <<prog, firstReg, configured, flag, steady, sinceFire>>

\* self.allocator.dealloc(ptr, layout);
dealloc_inner(t) ==
    /\ pc[t] = "inner"
    /\ call[t].op = "dealloc"
    /\ heap' = [heap EXCEPT ![call[t].ptr] = 0]
    /\ hist' = [hist EXCEPT ![t] =
                  InnerCalled(t, "dealloc", <<call[t].ptr, call[t].size>>, Null)]
    /\ pc' = [pc EXCEPT ![t] = "sub"]
    /\ UNCHANGED <<allocated, threshold, callback, held, call, loc, obs, more>>

\* The subtraction followed by an edge test of its own: the callback runs when the
\* count moves from at or above the threshold to below it.
FetchSubEdge(t, delta) ==
    LET fire == /\ allocated >= threshold /\ WrapSub(allocated, delta) < threshold
                /\ callback # None
    IN /\ allocated' = WrapSub(allocated, delta)
       /\ hist' = Disturb([hist EXCEPT ![t].updates = @ + 1, ![t].delta = delta,
                                       ![t].fires = IF fire THEN @ + 1 ELSE @,
                                       ![t].fired = IF fire THEN callback ELSE @])
       /\ rearm' = Dropped(allocated')
       /\ sinceFire' = DroppedSince(allocated')

\* self.allocated.fetch_sub(delta, Release), by thread t
FetchSub(t, delta) ==
    /\ allocated' = WrapSub(allocated, delta)
    /\ hist' = Disturb([hist EXCEPT ![t].updates = @ + 1, ![t].delta = delta,
                                    ![t].early = @ \/ hist[t].inner = 0])
    /\ rearm' = Dropped(allocated')
    /\ sinceFire' = DroppedSince(allocated')

\* let size = layout.size();  self.allocated.fetch_sub(size, Release);
dealloc_sub(t) ==
    /\ pc[t] = "sub"
    /\ call[t].op = "dealloc"
    /\ FetchSub(t, call[t].size)
    /\ pc' = [pc EXCEPT ![t] = "ret"]
    /\ UNCHANGED <<threshold, callback, heap, held, call, loc, firstReg, configured,
                   sequential, before, flag, stack, steady, shrinks>>

\* dealloc returns nothing
dealloc_ret(t) ==
    /\ pc[t] = "ret"
    /\ call[t].op = "dealloc"
    /\ Leave(t)
    /\ UNCHANGED <<prog, held, obs, more>>

\* ---------------------------------------------------------------- realloc
\* A caller invokes realloc(ptr, old_layout, size) on a block it owns.
realloc_call(t, ptr, size) ==
    /\ ptr \in held
    /\ Enter(t, [NoCall EXCEPT !.op = "realloc", !.ptr = ptr, !.old_size = heap[ptr],
                               !.size = size], "inner")
    /\ held' = held \ {ptr}
    /\ ObserveCall(t, rearm)
    /\ shrinks' = (shrinks \/ (steady /\ size <= heap[ptr]))
    /\ UNCHANGED <<prog, firstReg, configured, flag, steady, sinceFire>>

\* if new_size > old_size
ReallocGrows(old_size, new_size) == new_size > old_size

\* A growing realloc counted as a fresh allocation of the new size.
GrowDeltaWhole(old_size, new_size) == new_size

\* let allocation_size = new_size - old_size;
GrowDelta(old_size, new_size) == new_size - old_size

\* A shrinking realloc that gives up the whole old block.
ShrinkDeltaWhole(old_size, new_size) == old_size

\* old_size - new_size
ShrinkDelta(old_size, new_size) == old_size - new_size

\* let new_ptr = self.allocator.realloc(ptr, old_layout, size);
\* if !new_ptr.is_null() { if new_size > old_size { maybe_callback(new_size - old_size) }
\*                         else { .. } }
realloc_inner(t) ==
    /\ pc[t] = "inner"
    /\ call[t].op = "realloc"
    /\ \E new_ptr \in InnerReallocResults(call[t].ptr, call[t].size) :
         LET grows == ReallocGrows(call[t].old_size, call[t].size) IN
         /\ heap' = IF new_ptr = Null THEN heap
                    ELSE [[heap EXCEPT ![call[t].ptr] = 0] EXCEPT ![new_ptr] = call[t].size]
         /\ hist' = [hist EXCEPT ![t] =
                       InnerCalled(t, "realloc",
                                   <<call[t].ptr, call[t].old_size, call[t].size>>, new_ptr)]
         /\ loc' = [loc EXCEPT ![t] =
                      [EnterMaybeCallback(t, IF ~IsNull(new_ptr) /\ grows
                                             THEN GrowDelta(call[t].old_size, call[t].size)
                                             ELSE 0)
                         EXCEPT !.ptr = new_ptr]]
         /\ pc' = [pc EXCEPT ![t] = IF IsNull(new_ptr) THEN "ret"
                                    ELSE IF grows THEN "mc_load" ELSE "sub"]
    /\ UNCHANGED <<allocated, threshold, callback, held, call, obs, more>>

\* self.allocated.fetch_sub(old_size - new_size, Release);
realloc_sub(t) ==
    /\ pc[t] = "sub"
    /\ call[t].op = "realloc"
    /\ FetchSub(t, ShrinkDelta(call[t].old_size, call[t].size))
    /\ pc' = [pc EXCEPT ![t] = "ret"]
    /\ UNCHANGED <<threshold, callback, heap, held, call, loc, firstReg, configured,
                   sequential, before, flag, stack, steady, shrinks>>

\* new_ptr   (on failure the caller still owns the original block)
realloc_ret(t) ==
    /\ pc[t] = "ret"
    /\ call[t].op = "realloc"
    /\ held' = held \cup {IF RetPtr(t) = Null THEN call[t].ptr ELSE RetPtr(t)}
    /\ Leave(t)
    /\ UNCHANGED <<prog, obs, more>>

\* ---------------------------------------------------------------- specifications
\* One step of thread t.
Step(t) ==
    \/ \E value \in Usize : set_threshold(t, value)
    \/ set_threshold_ret(t)
    \/ \E f \in Callbacks : set_callback(t, f)
    \/ set_callback_ret(t)
    \/ \E op \in {"alloc", "alloc_zeroed"}, size \in Sizes : alloc_call(t, op, size)
    \/ alloc_inner(t)
    \/ alloc_ret(t)
    \/ \E ptr \in Addrs : dealloc_call(t, ptr)
    \/ dealloc_inner(t)
    \/ dealloc_sub(t)
    \/ dealloc_ret(t)
    \/ \E ptr \in Addrs, size \in Sizes : realloc_call(t, ptr, size)
    \/ realloc_inner(t)
    \/ realloc_sub(t)
    \/ realloc_ret(t)
    \/ maybe_callback_load(t)
    \/ maybe_callback_add(t)
    \/ maybe_callback_check(t)

\* Any number of threads call into the wrapper concurrently.
Next == \E t \in Threads : Step(t)
Spec == Init /\ [][Next]_vars

\* A single thread calls into the wrapper: a sequential trace.
MainThread == CHOOSE t \in Threads : \A u \in Threads : t <= u
NextSeq == Step(MainThread)
SpecSeq == Init /\ [][NextSeq]_vars

\* The program after its set-up, set_threshold(T) and set_callback(f) as in
\* tests::simple and examples/basic.rs, when it configures the wrapper no further:
\* any number of threads allocate, free and reallocate.
InitFixed ==
    /\ allocated = 0
    /\ threshold \in Usize
    /\ callback \in Callbacks
    /\ heap = [a \in Addrs |-> 0]
    /\ held = {}
    /\ pc = [t \in Threads |-> "idle"]
    /\ call = [t \in Threads |-> NoCall]
    /\ loc = [t \in Threads |-> NoLoc]
    /\ hist = [t \in Threads |-> NoHist]
    /\ firstReg = callback
    /\ before = 0
    /\ configured = TRUE
    /\ sequential = TRUE
    /\ rearm = "fresh"
    /\ flag = FALSE
    /\ stack = [t \in Threads |-> <<>>]
    /\ steady = TRUE
    /\ shrinks = FALSE
    /\ sinceFire = "none"

\* One step of thread t in an allocator operation.
StepFixed(t) ==
    \/ \E op \in {"alloc", "alloc_zeroed"}, size \in Sizes : alloc_call(t, op, size)
    \/ alloc_inner(t)
    \/ alloc_ret(t)
    \/ \E ptr \in Addrs : dealloc_call(t, ptr)
    \/ dealloc_inner(t)
    \/ dealloc_sub(t)
    \/ dealloc_ret(t)
    \/ \E ptr \in Addrs, size \in Sizes : realloc_call(t, ptr, size)
    \/ realloc_inner(t)
    \/ realloc_sub(t)
    \/ realloc_ret(t)
    \/ maybe_callback_load(t)
    \/ maybe_callback_add(t)
    \/ maybe_callback_check(t)

NextFixed == \E t \in Threads : StepFixed(t)
SpecFixed == InitFixed /\ [][NextFixed]_vars

\* The program after its set-up when the closure it registered calls into the wrapper
\* (examples/basic.rs): the threshold is fixed and a single thread allocates, frees and
\* reallocates, in its own code and in the closure's body.
InitRe ==
    /\ allocated = 0
    /\ threshold \in Usize
    /\ callback = Allocating
    /\ heap = [a \in Addrs |-> 0]
    /\ held = {}
    /\ pc = [t \in Threads |-> "idle"]
    /\ call = [t \in Threads |-> NoCall]
    /\ loc = [t \in Threads |-> NoLoc]
    /\ hist = [t \in Threads |-> NoHist]
    /\ firstReg = callback
    /\ before = 0
    /\ configured = TRUE
    /\ sequential = TRUE
    /\ rearm = "fresh"
    /\ flag = FALSE
    /\ stack = [t \in Threads |-> <<>>]
    /\ steady = TRUE
    /\ shrinks = FALSE
    /\ sinceFire = "none"

\* One step of thread t: in an allocator operation, or out of the closure's body.
StepRe(t) ==
    \/ \E op \in {"alloc", "alloc_zeroed"}, size \in Sizes : alloc_call(t, op, size)
    \/ alloc_inner(t)
    \/ alloc_ret(t)
    \/ \E ptr \in Addrs : dealloc_call(t, ptr)
    \/ dealloc_inner(t)
    \/ dealloc_sub(t)
    \/ dealloc_ret(t)
    \/ \E ptr \in Addrs, size \in Sizes : realloc_call(t, ptr, size)
    \/ realloc_inner(t)
    \/ realloc_sub(t)
    \/ realloc_ret(t)
    \/ maybe_callback_load(t)
    \/ maybe_callback_add(t)
    \/ maybe_callback_check(t)
    \/ callback_return(t)

NextRe == StepRe(MainThread)
\* The thread is scheduled as long as it has a step to take.
SpecReentrant == InitRe /\ [][NextRe]_vars /\ WF_vars(NextRe)

\* ---------------------------------------------------------------- claims
\* Thread t has completed an operation and is about to return from it.
AtRet(t) == pc[t] = "ret"
\* t's operation is a growth operation: alloc, alloc_zeroed, or a growing realloc.
IsGrowthCall(t) ==
    \/ call[t].op \in {"alloc", "alloc_zeroed"}
    \/ call[t].op = "realloc" /\ call[t].size > call[t].old_size
\* t's operation is a shrink operation: dealloc, or a realloc that does not grow.
IsShrinkCall(t) ==
    \/ call[t].op = "dealloc"
    \/ call[t].op = "realloc" /\ call[t].size <= call[t].old_size
\* the wrapped allocator did not fail t's operation
Succeeded(t) == call[t].op = "dealloc" \/ hist[t].inner_ret # Null
\* the wrapped allocator returned null to t's alloc, alloc_zeroed or realloc
Failed(t) ==
    /\ call[t].op \in {"alloc", "alloc_zeroed", "realloc"}
    /\ hist[t].inner = 1
    /\ hist[t].inner_ret = Null
\* the growth or shrink of t's operation, as its arguments state it
NetDelta(t) ==
    CASE Failed(t) -> 0
      [] call[t].op \in {"alloc", "alloc_zeroed"} -> call[t].size
      [] call[t].op = "dealloc" -> 0 - call[t].size
      [] call[t].op = "realloc" -> call[t].size - call[t].old_size
      [] OTHER -> 0

\* C1: in a sequential trace with a registered callback, a successful growth operation
\* invokes the callback (once) if and only if the count was below the threshold when
\* the operation was called and is at or above it when the operation returns; a growth
\* that starts at or above the threshold never invokes it.
C1_EdgeTrigger ==
    \A t \in Threads :
        (AtRet(t) /\ IsGrowthCall(t) /\ Succeeded(t) /\ callback # None) =>
            /\ hist[t].fires = (IF before < threshold /\ allocated >= threshold
                                THEN 1 ELSE 0)
            /\ (before >= threshold => hist[t].fires = 0)

\* a growth that crossed the threshold and invoked the callback
C1_Witness ==
    \E t \in Threads :
        /\ AtRet(t) /\ IsGrowthCall(t) /\ Succeeded(t) /\ callback # None
        /\ configured /\ 0 < before /\ before < threshold /\ allocated >= threshold
        /\ hist[t].fires = 1

\* C2: in a sequential trace, once the callback has fired and shrink operations have
\* taken the count below the threshold, the growth operation that takes the count to
\* or above the threshold again invokes the callback again, time after time.
C2_Rearm ==
    [][\A t \in Threads :
          (/\ pc[t] = "mc_check" /\ pc'[t] = "ret"
           /\ rearm = "dropped" /\ callback # None
           /\ before < threshold /\ allocated >= threshold)
          => (hist'[t].fires = 1 /\ rearm' = "refired")]_vars

\* the callback has fired, a shrink has taken the count below the threshold, and a
\* growth has invoked the callback again
C2_Witness ==
    \E t \in Threads :
        /\ AtRet(t) /\ IsGrowthCall(t) /\ hist[t].fires = 1
        /\ rearm = "refired" /\ configured

\* C3: after a sequential trace the live byte count is the sum of the growth deltas
\* less the sum of the shrink deltas of its successful operations: each operation moves
\* the count by its own delta, and the total is the bytes outstanding, whatever the
\* threshold and the callback are.
C3_NetAccounting ==
    /\ \A t \in Threads :
         (AtRet(t) /\ call[t].op \in {"alloc", "alloc_zeroed", "dealloc", "realloc"})
            => allocated = before + NetDelta(t)
    /\ (\A t \in Threads : pc[t] \in {"idle", "ret"}) => allocated = HeapBytes

\* a shrinking realloc has returned with bytes still outstanding
C3_Witness ==
    \E t \in Threads :
        /\ AtRet(t) /\ call[t].op = "realloc" /\ Succeeded(t)
        /\ call[t].size < call[t].old_size
        /\ allocated = HeapBytes /\ allocated > call[t].size
        /\ callback # None /\ threshold <= allocated

\* C4: when the wrapped allocator returns null from alloc, alloc_zeroed or realloc, the
\* wrapper returns null, the count is what it was when the operation was called, no
\* counter update and no callback invocation has happened, a realloc's block is still
\* there with its size; and neither the step that fails nor the return changes the
\* wrapper's fields or the heap, the caller owning what it owned before: what follows is
\* what would have followed without the call.
C4_FailureNoOp ==
    /\ [](\A t \in Threads :
            (AtRet(t) /\ Failed(t)) =>
                /\ RetPtr(t) = Null
                /\ allocated = before
                /\ hist[t].updates = 0 /\ hist[t].fires = 0
                /\ (call[t].op = "realloc" =>
                      /\ heap[call[t].ptr] = call[t].old_size
                      /\ call[t].ptr \notin held))
    /\ [][\A t \in Threads :
            /\ (pc[t] = "inner" /\ pc'[t] = "ret" /\ Failed(t)')
                  => (prog' = prog /\ held' = held /\ rearm' = rearm)
            /\ (AtRet(t) /\ Failed(t) /\ pc'[t] = "idle")
                  => /\ prog' = prog /\ rearm' = rearm
                     /\ held' = IF call[t].op = "realloc"
                                THEN held \cup {call[t].ptr} ELSE held]_vars

\* a realloc that would have crossed the threshold has failed
C4_Witness ==
    \E t \in Threads :
        /\ AtRet(t) /\ Failed(t) /\ call[t].op = "realloc"
        /\ callback # None /\ configured
        /\ before < threshold
        /\ before + call[t].size - call[t].old_size >= threshold

\* C5: the first set_callback succeeds and every later one panics, whichever threads
\* call and however the calls race (one winner); the cell keeps the closure of the
\* first call, and every invocation of the callback invokes that closure.
C5_DoubleRegistration ==
    /\ callback = firstReg
    /\ \A t \in Threads :
         /\ (AtRet(t) /\ call[t].op = "set_callback") =>
               /\ hist[t].outcome = (IF hist[t].was_first THEN "ok" ELSE "panic")
               /\ (hist[t].outcome = "ok" => callback = call[t].arg)
         /\ hist[t].fires > 0 => hist[t].fired = firstReg
    /\ Cardinality({t \in Threads : /\ AtRet(t) /\ call[t].op = "set_callback"
                                     /\ hist[t].outcome = "ok"}) <= 1

\* a set_callback with another closure has panicked, and a growth has invoked the
\* closure registered first
C5_Witness ==
    \E t, u \in Threads :
        /\ AtRet(t) /\ call[t].op = "set_callback" /\ hist[t].outcome = "panic"
        /\ call[t].arg # callback
        /\ AtRet(u) /\ IsGrowthCall(u) /\ hist[u].fires = 1
        /\ hist[u].fired = callback

\* C6: while set_threshold has never been called, no growth operation invokes the
\* callback, however large the count becomes, usize::MAX included.
C6_DisabledByDefault ==
    \A t \in Threads : ~configured => hist[t].fires = 0

\* C7: a successful growing realloc updates the count once, by new_size - old_size,
\* the edge test is made on (count before, count before + delta), the callback's
\* argument is count before + delta, and the count never goes down on the way.
C7_ReallocSingleGrowth ==
    /\ [](\A t \in Threads :
            (/\ AtRet(t) /\ call[t].op = "realloc" /\ Succeeded(t)
             /\ call[t].size > call[t].old_size) =>
                LET delta == call[t].size - call[t].old_size IN
                /\ hist[t].updates = 1 /\ hist[t].delta = delta
                /\ allocated = before + delta
                /\ hist[t].fires = (IF /\ callback # None /\ before < threshold
                                       /\ before + delta >= threshold
                                    THEN 1 ELSE 0)
                /\ (hist[t].fires = 1 => hist[t].fire_arg = before + delta))
    /\ [][\A t \in Threads :
            (pc[t] # "idle" /\ call[t].op = "realloc" /\ call[t].size > call[t].old_size)
                => allocated' >= allocated]_vars

\* a growing realloc that starts at or above the threshold has not fired, where a
\* dealloc of the old block followed by an alloc of the new one would have crossed
C7_Witness ==
    \E t \in Threads :
        /\ AtRet(t) /\ call[t].op = "realloc" /\ Succeeded(t)
        /\ call[t].size > call[t].old_size
        /\ callback # None /\ configured
        /\ before >= threshold /\ before - call[t].old_size < threshold
        /\ hist[t].fires = 0

\* C8: dealloc and a successful realloc that does not grow subtract their delta from
\* the count in one update and never invoke the callback, the step from at or above
\* the threshold to below it included.
C8_ShrinkNeverFires ==
    \A t \in Threads :
        (AtRet(t) /\ IsShrinkCall(t) /\ Succeeded(t)) =>
            LET delta == IF call[t].op = "dealloc" THEN call[t].size
                         ELSE call[t].old_size - call[t].size IN
            /\ hist[t].fires = 0
            /\ hist[t].updates = 1 /\ hist[t].delta = delta
            /\ allocated = before - delta

\* a shrink has taken the count from at or above the threshold to below it, with a
\* callback registered
C8_Witness ==
    \E t \in Threads :
        /\ AtRet(t) /\ IsShrinkCall(t) /\ Succeeded(t)
        /\ callback # None /\ configured
        /\ before >= threshold /\ allocated < threshold

\* Two growth operations of different threads are in flight together, and since the
\* earlier was called nothing has lowered the count or stored a threshold.
ConcurrentGrowths(t, u) ==
    /\ t # u
    /\ IsGrowthCall(t) /\ IsGrowthCall(u)
    /\ hist[t].clean /\ hist[u].clean

\* C9, as the spec states it: two concurrent growth operations that take the count
\* across the threshold both invoke the callback.
C9_DuplicateFire ==
    \A t, u \in Threads :
        (/\ ConcurrentGrowths(t, u) /\ AtRet(t) /\ AtRet(u)
         /\ hist[t].fires = 1) => hist[u].fires = 1

\* C9, amended: of two concurrent growth operations, with no shrink and no
\* set_threshold in between, at most one invokes the callback.
C9_SingleFire ==
    \A t, u \in Threads :
        ConcurrentGrowths(t, u) => ~(hist[t].fires = 1 /\ hist[u].fires = 1)

\* two concurrent growth operations have both made their test against the same
\* threshold, which the count has crossed: one has invoked the callback
C9_Witness ==
    \E t, u \in Threads :
        /\ ConcurrentGrowths(t, u) /\ AtRet(t) /\ AtRet(u)
        /\ Succeeded(t) /\ Succeeded(u)
        /\ loc[t].threshold = threshold /\ loc[u].threshold = threshold
        /\ hist[t].fires = 1 /\ hist[u].fires = 0
        /\ allocated >= threshold

\* the arguments the wrapper was called with, as the wrapped allocator takes them
CallArgs(t) ==
    CASE call[t].op \in {"alloc", "alloc_zeroed"} -> <<call[t].size>>
      [] call[t].op = "dealloc" -> <<call[t].ptr, call[t].size>>
      [] call[t].op = "realloc" -> <<call[t].ptr, call[t].old_size, call[t].size>>
      [] OTHER -> <<>>

\* C10: every alloc, alloc_zeroed, dealloc and realloc calls the same operation of the
\* wrapped allocator once, with its own arguments, before any counter update or
\* callback invocation, and returns the pointer the wrapped allocator returned.
C10_Delegation ==
    \A t \in Threads :
        /\ hist[t].inner <= 1
        /\ ~hist[t].early
        /\ (hist[t].updates > 0 \/ hist[t].fires > 0) => hist[t].inner = 1
        /\ (AtRet(t) /\ call[t].op \in {"alloc", "alloc_zeroed", "dealloc", "realloc"}) =>
              /\ hist[t].inner = 1
              /\ hist[t].inner_op = call[t].op
              /\ hist[t].inner_args = CallArgs(t)
              /\ (call[t].op # "dealloc" => RetPtr(t) = hist[t].inner_ret)

\* one operation returns the non-null pointer it was given after the callback ran,
\* another returns the null it was given
C10_Witness ==
    \E t, u \in Threads :
        /\ AtRet(t) /\ IsGrowthCall(t) /\ hist[t].fires = 1
        /\ RetPtr(t) # Null /\ RetPtr(t) = hist[t].inner_ret
        /\ AtRet(u) /\ Failed(u) /\ RetPtr(u) = Null

\* C11: in a sequential trace, a growth operation whose update crosses the threshold
\* with a callback registered has, when it is about to return its pointer, invoked the
\* callback itself, and the closure has run to its end (the flag it stores to is set);
\* the closure's effect appears in no other step than the check of a crossing growth
\* operation, made by the thread that called it: not before the operation starts, and
\* not in or after its return.
C11_SynchronousFiring ==
    /\ [](\A t \in Threads :
            (/\ AtRet(t) /\ IsGrowthCall(t) /\ Succeeded(t) /\ callback # None
             /\ before < threshold /\ allocated >= threshold) =>
                /\ hist[t].fires = 1 /\ hist[t].fired = callback
                /\ callback = Storing => flag)
    /\ [][flag' # flag =>
            \E t \in Threads :
                /\ pc[t] = "mc_check" /\ pc'[t] = "ret" /\ IsGrowthCall(t)
                /\ hist'[t].fires = 1 /\ hist'[t].fired = Storing
                /\ before < threshold /\ allocated >= threshold
                /\ \A u \in Threads \ {t} : pc'[u] = pc[u]]_vars

\* the first crossing growth since the threshold was set is about to return and the
\* closure of tests::simple has stored to its flag
C11_Witness ==
    \E t \in Threads :
        /\ AtRet(t) /\ call[t].op \in {"alloc", "alloc_zeroed"} /\ Succeeded(t)
        /\ callback = Storing /\ configured /\ rearm = "fired"
        /\ before < threshold /\ allocated >= threshold
        /\ hist[t].fires = 1 /\ flag
        /\ RetPtr(t) # Null /\ RetPtr(t) \notin held

\* C17: in a sequential trace, a growth operation that takes the count across the
\* threshold while no callback is registered invokes nothing and leaves nothing behind
\* but the count; set_callback invokes nothing; with a callback registered, a growth
\* operation that starts at or above the threshold invokes nothing; and every
\* invocation is made by a growth operation that crosses the threshold with the
\* callback registered.
C17_LostCrossing ==
    /\ [](\A t \in Threads :
            /\ (AtRet(t) /\ IsGrowthCall(t) /\ callback = None) => hist[t].fires = 0
            /\ (AtRet(t) /\ call[t].op = "set_callback") => hist[t].fires = 0
            /\ (AtRet(t) /\ IsGrowthCall(t) /\ before >= threshold) => hist[t].fires = 0
            /\ (AtRet(t) /\ hist[t].fires > 0) =>
                  /\ IsGrowthCall(t) /\ callback # None
                  /\ before < threshold /\ allocated >= threshold)
    /\ [][\A t \in Threads :
            /\ (pc[t] = "mc_check" /\ pc'[t] = "ret" /\ callback = None) =>
                  /\ prog' = prog /\ flag' = flag /\ held' = held
                  /\ hist'[t].fires = 0
            /\ (pc[t] = "idle" /\ call'[t].op = "set_callback") =>
                  /\ flag' = flag /\ allocated' = allocated /\ threshold' = threshold
                  /\ heap' = heap /\ hist'[t].fires = 0]_vars

\* a growth operation has crossed the threshold with no callback registered, and has
\* invoked nothing; the count can still grow
C17_Witness ==
    \E t \in Threads :
        /\ AtRet(t) /\ IsGrowthCall(t) /\ Succeeded(t)
        /\ callback = None /\ configured
        /\ 0 < before /\ before < threshold /\ allocated >= threshold
        /\ allocated < UsizeMax
        /\ hist[t].fires = 0 /\ ~flag

\* C18: in a sequential trace, set_threshold stores the value it is given, whatever it
\* is, and changes nothing else: not the count, not the callback, not the heap, and it
\* invokes nothing, a value at or below the count included; after it, a growth
\* operation that starts at or above the threshold invokes nothing.
C18_SetThresholdFrame ==
    /\ [](\A t \in Threads :
            /\ (AtRet(t) /\ call[t].op = "set_threshold") =>
                  /\ threshold = call[t].arg /\ allocated = before
                  /\ hist[t].fires = 0 /\ hist[t].updates = 0
                  /\ hist[t].outcome = "ok"
            /\ (AtRet(t) /\ IsGrowthCall(t) /\ Succeeded(t) /\ before >= threshold) =>
                  hist[t].fires = 0)
    /\ [][\A t \in Threads :
            (pc[t] = "idle" /\ call'[t].op = "set_threshold") =>
                /\ threshold' = call'[t].arg
                /\ allocated' = allocated /\ callback' = callback /\ heap' = heap
                /\ held' = held /\ flag' = flag]_vars

\* set_threshold has stored a value at or below the count, with a callback registered
\* that has never run
C18_Witness ==
    \E t \in Threads :
        /\ AtRet(t) /\ call[t].op = "set_threshold"
        /\ 0 < call[t].arg /\ call[t].arg <= allocated /\ allocated < UsizeMax
        /\ callback = Storing /\ ~flag
        /\ hist[t].fires = 0

\* C12, as the claim states it: the threshold a growth operation tests against is read
\* after its fetch_add, so it is one of the values the threshold has had since then
\* (the value a set_threshold completed before the fetch_add left there, or a later
\* one).
C12_ReadAfterAdd ==
    [][\A t \in Threads :
          (pc[t] = "mc_check" /\ pc'[t] = "ret") =>
              ~hist[t].stale]_vars

\* C12, amended: the threshold a growth operation tests against is the value its load
\* read, the load is made before the fetch_add, and nothing stored later reaches the
\* test: the operation invokes the callback exactly when the counts of its fetch_add
\* cross the loaded value and a callback is registered.
C12_ReadBeforeAdd ==
    [][\A t \in Threads :
          /\ (pc[t] = "mc_load" /\ pc'[t] # "mc_load") =>
                /\ pc'[t] = "mc_add" /\ loc'[t].threshold = threshold
                /\ allocated' = allocated /\ hist'[t].updates = 0
          /\ (pc[t] \in {"mc_add", "mc_check"} /\ pc'[t] \in {"mc_check", "ret"}) =>
                loc'[t].threshold = loc[t].threshold
          /\ (pc[t] = "mc_check" /\ pc'[t] = "ret") =>
                (hist'[t].fires = 1) =
                    (/\ loc[t].old_allocated < loc[t].threshold
                     /\ loc'[t].new_allocated >= loc[t].threshold
                     /\ callback # None)]_vars

\* a set_threshold completed between a growth operation's load and its fetch_add, and
\* the operation has invoked the callback for crossing the value that was replaced,
\* though its counts do not cross any value the threshold has had since the fetch_add
C12_Witness ==
    \E t \in Threads :
        /\ AtRet(t) /\ IsGrowthCall(t) /\ hist[t].stale
        /\ hist[t].fires = 1
        /\ ~Crossed(loc[t].old_allocated, loc[t].new_allocated, threshold)

\* C13: in every interleaving, a callback invocation is handed the count its operation's
\* fetch_add read, which is the count immediately before that add, plus the
\* operation's delta; that argument is at or above the threshold the operation
\* loaded, and the argument less the delta is below it.
C13_CallbackArgument ==
    /\ [](\A t \in Threads :
            (AtRet(t) /\ hist[t].fires = 1) =>
                /\ IsGrowthCall(t) /\ hist[t].delta = NetDelta(t)
                /\ hist[t].fire_arg = loc[t].old_allocated + hist[t].delta
                /\ hist[t].fire_arg >= loc[t].threshold
                /\ hist[t].fire_arg - hist[t].delta < loc[t].threshold)
    /\ [][\A t \in Threads :
            (pc[t] = "mc_add" /\ pc'[t] = "mc_check") =>
                /\ loc'[t].old_allocated = allocated
                /\ hist'[t].delta = loc[t].allocation_size
                /\ allocated' = WrapAdd(allocated, hist'[t].delta)]_vars

\* the callback has been handed a total that was no longer the count when it ran:
\* another operation had moved the count between this one's fetch_add and its test
C13_Witness ==
    \E t \in Threads :
        /\ AtRet(t) /\ hist[t].fires = 1 /\ hist[t].moved
        /\ hist[t].fire_arg = loc[t].old_allocated + hist[t].delta
        /\ loc[t].old_allocated > 0

\* the bytes thread t's operation has taken from the wrapped allocator and not yet
\* added to the count
PendingAdd(t) == IF pc[t] \in {"mc_load", "mc_add"} THEN loc[t].allocation_size ELSE 0
\* the bytes thread t's operation has given back to the wrapped allocator and not yet
\* subtracted from the count
PendingSub(t) ==
    CASE pc[t] = "sub" /\ call[t].op = "dealloc" -> call[t].size
      [] pc[t] = "sub" /\ call[t].op = "realloc" -> call[t].old_size - call[t].size
      [] OTHER -> 0
\* what the count stands for: the bytes outstanding, less the additions and plus the
\* subtractions still to come
Ledger ==
    HeapBytes - SumOver([t \in Threads |-> PendingAdd(t)], Threads)
              + SumOver([t \in Threads |-> PendingSub(t)], Threads)

\* C15: at each fetch_sub of a dealloc or a realloc of a block the wrapper returned
\* earlier, released once, with its current size, the count is at least the amount
\* subtracted: the count never wraps below zero.
C15_NoUnderflow ==
    [][\A t \in Threads :
          (pc[t] = "sub" /\ pc'[t] = "ret") =>
              /\ allocated >= PendingSub(t)
              /\ allocated' = allocated - PendingSub(t)]_vars

\* C16: in every interleaving, when no operation is in flight the count is the sum of
\* the sizes of the blocks outstanding; and at every moment it is that sum corrected
\* by the updates still to come (modulo the width of usize): no update is lost.
C16_QuiescentExact ==
    /\ (\A t \in Threads : pc[t] \in {"idle", "ret"}) => allocated = HeapBytes
    /\ allocated = Ledger % Modulus

\* a growth and a shrink of different threads have overlapped and made their updates,
\* and the count is the bytes outstanding
C16_Witness ==
    \E t, u \in Threads :
        /\ t # u /\ \A v \in Threads : pc[v] \in {"idle", "ret"}
        /\ AtRet(t) /\ IsGrowthCall(t) /\ Succeeded(t) /\ ~hist[t].clean
        /\ AtRet(u) /\ IsShrinkCall(u) /\ Succeeded(u) /\ hist[u].updates = 1
        /\ allocated = HeapBytes /\ allocated > 0

\* The fetch_add of t's completed operation took the count from below the threshold
\* to at or above it.
CrossingAdd(t) ==
    /\ hist[t].updates = 1
    /\ loc[t].old_allocated < threshold
    /\ WrapAdd(loc[t].old_allocated, hist[t].delta) >= threshold

\* With the threshold fixed and the callback registered before any operation: each
\* growth operation invokes the callback once if its fetch_add crossed the threshold
\* and not at all otherwise, no other operation invokes it; and as long as no shrink
\* operation has been called the callback has run at most once.
OneFirePerCrossingAdd ==
    /\ \A t \in Threads :
         /\ (AtRet(t) /\ IsGrowthCall(t) /\ Succeeded(t)) =>
               hist[t].fires = (IF CrossingAdd(t) THEN 1 ELSE 0)
         /\ (pc[t] = "panicked" \/ ~IsGrowthCall(t)) => hist[t].fires = 0
    /\ ~shrinks => sinceFire \in {"none", "fired"}

\* C14, as the claim states it: the invocations are as many as the fetch_adds that
\* cross the threshold, with growth operations only there is at most one, and between
\* any two invocations an update has taken the count below the threshold.
C14_ShrinkBetweenFires ==
    /\ OneFirePerCrossingAdd
    /\ sinceFire # "refired"

\* C14, amended: the invocations are as many as the fetch_adds that cross the
\* threshold, each made by the operation of its fetch_add, and with growth operations
\* only there is at most one; the invocations need not come in the order of the
\* fetch_adds.
C14_OneFirePerCrossing ==
    /\ OneFirePerCrossingAdd
    /\ sinceFire = "refired" => shrinks

\* two growth operations have each crossed the threshold and each invoked the
\* callback, the second invocation following the first with no update between them
\* that took the count below the threshold
C14_Witness ==
    \E t, u \in Threads :
        /\ t # u /\ sinceFire = "refired"
        /\ AtRet(t) /\ CrossingAdd(t) /\ hist[t].fires = 1
        /\ AtRet(u) /\ CrossingAdd(u) /\ hist[u].fires = 1

\* C19: on a single thread with a fixed threshold, while a closure that allocates, and
\* frees and reallocates only what it has allocated itself, is running, the count stays
\* at or above the threshold and none of its operations invokes the callback: no
\* invocation is nested in another; and the closure returns, after which the growth
\* operation that invoked it returns.
C19_BoundedReentrancy ==
    /\ [](\A t \in Threads :
            /\ Len(stack[t]) <= 1
            /\ stack[t] # <<>> =>
                  /\ hist[t].fires = 0
                  /\ allocated >= threshold
                  /\ Head(stack[t]).hist.fires = 1
                  /\ Head(stack[t]).loc.new_allocated <= allocated)
    /\ \A t \in Threads :
         /\ (stack[t] # <<>>) ~> (stack[t] = <<>> /\ pc[t] = "ret" /\ hist[t].fires = 1)
         /\ (pc[t] = "mc_check") ~> (stack[t] = <<>> /\ pc[t] = "idle")

\* the closure is running and has allocated, shrunk or freed, and allocated again: its
\* last growth operation is about to return without having invoked the callback
C19_Witness ==
    \E t \in Threads :
        /\ stack[t] # <<>> /\ Head(stack[t]).left = 0
        /\ Head(stack[t]).hist.fires = 1
        /\ AtRet(t) /\ IsGrowthCall(t) /\ Succeeded(t)
        /\ hist[t].updates = 1 /\ hist[t].fires = 0
        /\ loc[t].old_allocated < Head(stack[t]).loc.new_allocated + MaxSize
        /\ shrinks

====
